---- MODULE Spec2Model ----
(***************************************************************************)
(* PocketPilot: the sheet-alignment / keyed-upsert layer (app/services.py)  *)
(* and the request handlers that write through it (app/main.py).            *)
(*                                                                          *)
(* The external spreadsheet is modelled as what the code can observe of it: *)
(* one tab is a header row `hdr` (row 1) and a sequence `rows` of data rows *)
(* (row 2 onward), every cell a text.  The gspread calls the code makes are *)
(* the operators ws_*: append_row adds a new last row, update overwrites    *)
(* the cells of the A1 range it is given, col_values / row_values /         *)
(* get_all_records read.  The store keeps the text it is handed.            *)
(*                                                                          *)
(* Spec runs the services and handlers one call at a time; SpecRace runs    *)
(* two upserts split at their remote operations; SpecStale adds edits of    *)
(* the remote header row between calls.                                     *)
(* SpecNames runs the two handlers that keep created_at, on names with      *)
(* blanks around them.                                                      *)
(***************************************************************************)
EXTENDS Integers, Sequences, FiniteSets, TLC

\* ---------------------------------------------------------------- bounds
MaxRows == 3
MaxBatch == 3

\* ---------------------------------------------------------------- values
\* A Python value of a row_dict: a str, an int, a list of str, or a dict of
\* str -> str (as a sequence of <<key, value>> pairs, in insertion order).
Str(s) == [t |-> "str", v |-> s]
Num(n) == [t |-> "num", v |-> n]
Lst(xs) == [t |-> "list", v |-> xs]
Dct(ps) == [t |-> "dict", v |-> ps]

RECURSIVE lstrip(_)
lstrip(s) == IF Len(s) > 0 /\ Head(s) = " " THEN lstrip(Tail(s)) ELSE s

RECURSIVE rstrip(_)
rstrip(s) ==
    IF Len(s) > 0 /\ SubSeq(s, Len(s), Len(s)) = " "
    THEN rstrip(SubSeq(s, 1, Len(s) - 1))
    ELSE s

\* str.strip(): leading and trailing whitespace removed.
strip(s) == rstrip(lstrip(s))

Digit(d) == CASE d = 0 -> "0" [] d = 1 -> "1" [] d = 2 -> "2" [] d = 3 -> "3"
              [] d = 4 -> "4" [] d = 5 -> "5" [] d = 6 -> "6" [] d = 7 -> "7"
              [] d = 8 -> "8" [] d = 9 -> "9"

RECURSIVE NatText(_)
NatText(n) == IF n < 10 THEN Digit(n) ELSE NatText(n \div 10) \o Digit(n % 10)

\* The text a number is stored and read back as.
IntText(n) == IF n < 0 THEN "-" \o NatText(0 - n) ELSE NatText(n)

json_quote(s) == "\"" \o s \o "\""

RECURSIVE json_items(_)
json_items(xs) ==
    IF Len(xs) = 0 THEN ""
    ELSE IF Len(xs) = 1 THEN json_quote(xs[1])
    ELSE json_quote(xs[1]) \o ", " \o json_items(Tail(xs))

RECURSIVE json_pairs(_)
json_pairs(ps) ==
    IF Len(ps) = 0 THEN ""
    ELSE IF Len(ps) = 1 THEN json_quote(ps[1][1]) \o ": " \o json_quote(ps[1][2])
    ELSE json_quote(ps[1][1]) \o ": " \o json_quote(ps[1][2]) \o ", "
             \o json_pairs(Tail(ps))

\* json.dumps(v, ensure_ascii=False) of a list or a dict.
json_dumps(v) ==
    IF v.t = "list" THEN "[" \o json_items(v.v) \o "]"
    ELSE "{" \o json_pairs(v.v) \o "}"

\* The text of the cell a value is written as.
cell_text(v) ==
    IF v.t \in {"dict", "list"} THEN json_dumps(v)
    ELSE IF v.t = "num" THEN IntText(v.v)
    ELSE IF v.t = "rat" THEN IntText(v.v[1]) \o "/" \o IntText(v.v[2])
    ELSE v.v

\* row_dict.get(h, "")
dict_get(row_dict, h) == IF h \in DOMAIN row_dict THEN row_dict[h] ELSE Str("")

\* build_row with `if h in row_dict` around the append: a header field the
\* mapping lacks gets no cell.
RECURSIVE build_row_skip_missing(_, _)
build_row_skip_missing(headers, row_dict) ==
    IF Len(headers) = 0 THEN <<>>
    ELSE (IF Head(headers) \in DOMAIN row_dict
          THEN <<cell_text(row_dict[Head(headers)])>> ELSE <<>>)
             \o build_row_skip_missing(Tail(headers), row_dict)

RECURSIVE build_row(_, _)
build_row(headers, row_dict) ==
    IF Len(headers) = 0 THEN <<>>
    ELSE <<cell_text(dict_get(row_dict, Head(headers)))>>
             \o build_row(Tail(headers), row_dict)

\* ---------------------------------------------------- the remote worksheet
\* What a call returns: a value, or the exception it raised.
Ok(ret) == [status |-> "ok", ret |-> ret]
Err(kind) == [status |-> "error", kind |-> kind]
None == [none |-> TRUE]

Range(f) == {f[i] : i \in DOMAIN f}

\* The cell of a row at a column; a cell the row does not hold reads as "".
cell_at(row, idx) == IF idx \in 1..Len(row) THEN row[idx] ELSE ""

\* ws.row_values(1): the header row.
ws_row_values(hdr) == hdr

\* ws.col_values(idx): the column's cells, the header's first.
ws_col_values(hdr, rows, idx) ==
    <<cell_at(hdr, idx)>> \o [i \in 1..Len(rows) |-> cell_at(rows[i], idx)]

\* ws.insert_row(row, 2) in place of ws.append_row: the row goes first.
ws_insert_row_first(rows, row) == <<row>> \o rows

\* ws.append_row(row): the row becomes the new last row.
ws_append_row(rows, row) == Append(rows, row)

\* An update that skips the blank cells of `row` (the store's treatment of a
\* null value): the old value of such a cell stays.
overlay_skip_blank(old, row) ==
    [j \in 1..(IF Len(row) > Len(old) THEN Len(row) ELSE Len(old)) |->
        IF j <= Len(row) /\ row[j] # "" THEN row[j] ELSE cell_at(old, j)]

\* The cells of `row` laid over `old`: the update's range is as wide as `row`,
\* a cell of `old` to the right of it is not in the range and stays.
overlay(old, row) == row \o SubSeq(old, Len(row) + 1, Len(old))

\* ws.update("A<n>:<end><n>", [row]) on sheet row n (row 1 is the header, row 2
\* the first data row); the empty rows between the last row and n read blank.
ws_update(hdr, rows, n, row) ==
    IF n = 1 THEN [hdr |-> overlay(hdr, row), rows |-> rows]
    ELSE [hdr |-> hdr,
          rows |-> [i \in 1..(IF n - 1 > Len(rows) THEN n - 1 ELSE Len(rows)) |->
                       IF i = n - 1
                       THEN overlay(IF i <= Len(rows) THEN rows[i] ELSE <<>>, row)
                       ELSE IF i <= Len(rows) THEN rows[i] ELSE <<>>]]

\* One record of ws.get_all_records(): the header zipped with a data row.
record_of(hdr, row) == [f \in Range(hdr) |->
                           cell_at(row, CHOOSE i \in 1..Len(hdr) : hdr[i] = f)]

\* ws.get_all_records(): one record per data row, row 2 first.
sheets_get_all_records(hdr, rows) ==
    [i \in 1..Len(rows) |-> record_of(hdr, rows[i])]

\* ------------------------------------------------------------ services.py
\* The outcome of a service call: the worksheet and the header cache after it,
\* what it returned or raised, the remote calls it made (log) and the row it
\* handed to the store (written; <<>> when it wrote none).
Outcome(hdr, rows, cache, res, log, written) ==
    [hdr |-> hdr, rows |-> rows, cache |-> cache, res |-> res, log |-> log,
     written |-> written]

\* An outcome that returns ret where the call it wraps returned normally.
with_res(o, ret) == IF o.res.status = "ok" THEN [o EXCEPT !.res = Ok(ret)] ELSE o

\* An outcome after the remote calls `prefix` made before it.
with_log(prefix, o) == [o EXCEPT !.log = prefix \o o.log]

\* The remote read of _sheet_headers: an empty row 1 raises.
read_headers(headers) ==
    IF headers = <<>>
    THEN [ok |-> FALSE, headers |-> <<>>, cache |-> <<>>, log |-> <<"row_values">>]
    ELSE [ok |-> TRUE, headers |-> headers, cache |-> headers, log |-> <<"row_values">>]

\* _sheet_headers without its lru_cache: every call reads row 1.
sheet_headers_uncached(cache, hdr) == read_headers(ws_row_values(hdr))

\* _sheet_headers under lru_cache: a cached header row is returned without a
\* remote read; a read that raises is not cached.  cache = <<>>: not cached.
sheet_headers(cache, hdr) ==
    IF cache # <<>> THEN [ok |-> TRUE, headers |-> cache, cache |-> cache, log |-> <<>>]
    ELSE read_headers(ws_row_values(hdr))

\* ws.append_row of the row built; up: whether the store accepts the write
\* (FALSE: the remote call raises).
append_built(h, hdr, rows, row, up) ==
    IF ~up
    THEN Outcome(hdr, rows, h.cache, Err("StoreUnavailable"),
                 h.log \o <<"append_row">>, <<>>)
    ELSE Outcome(hdr, ws_append_row(rows, row), h.cache, Ok(None),
                 h.log \o <<"append_row">>, row)

\* sheets_append_row_by_header once _sheet_headers has answered h.
append_aligned(h, hdr, rows, row_dict, up) ==
    IF ~h.ok THEN Outcome(hdr, rows, h.cache, Err("NoHeaderRow"), h.log, <<>>)
    ELSE append_built(h, hdr, rows, build_row(h.headers, row_dict), up)

sheets_append_row_by_header(cache, hdr, rows, row_dict, up) ==
    append_aligned(sheet_headers(cache, hdr), hdr, rows, row_dict, up)

\* ws.update of the row built, over the range A<n>:<end_col><n>.
update_range(h, hdr, rows, w, row, up) ==
    IF ~up
    THEN Outcome(hdr, rows, h.cache, Err("StoreUnavailable"), h.log \o <<"update">>, <<>>)
    ELSE Outcome(w.hdr, w.rows, h.cache, Ok(None), h.log \o <<"update">>, row)

update_built(h, hdr, rows, row_number_1based, row, up) ==
    update_range(h, hdr, rows, ws_update(hdr, rows, row_number_1based, row), row, up)

\* sheets_update_row_by_header once _sheet_headers has answered h.
update_aligned(h, hdr, rows, row_number_1based, row_dict, up) ==
    IF ~h.ok THEN Outcome(hdr, rows, h.cache, Err("NoHeaderRow"), h.log, <<>>)
    ELSE update_built(h, hdr, rows, row_number_1based,
                      build_row(h.headers, row_dict), up)

sheets_update_row_by_header(cache, hdr, rows, row_number_1based, row_dict, up) ==
    update_aligned(sheet_headers(cache, hdr), hdr, rows, row_number_1based,
                   row_dict, up)

\* headers.index(key_column) + 1: the 1-based position of the first match.
index_of(headers, key_column) ==
    CHOOSE i \in 1..Len(headers) :
        headers[i] = key_column /\ \A j \in 1..(i - 1) : headers[j] # key_column

\* The scan without its break: the last match wins.
RECURSIVE scan_last(_, _, _)
scan_last(col_vals, i, key_value) ==
    IF i > Len(col_vals) THEN 0
    ELSE IF scan_last(col_vals, i + 1, key_value) # 0
    THEN scan_last(col_vals, i + 1, key_value)
    ELSE IF strip(col_vals[i]) = strip(key_value) THEN i
    ELSE 0

\* The scan of col_vals[1:] from sheet row i on: the first row whose trimmed
\* cell equals the trimmed key, 0 (None) when there is none.
RECURSIVE scan_from(_, _, _)
scan_from(col_vals, i, key_value) ==
    IF i > Len(col_vals) THEN 0
    ELSE IF strip(col_vals[i]) = strip(key_value) THEN i
    ELSE scan_from(col_vals, i + 1, key_value)

\* The scan over all of col_vals, the header cell included.
find_target_row_from_header(col_vals, key_value) == scan_from(col_vals, 1, key_value)

find_target_row(col_vals, key_value) == scan_from(col_vals, 2, key_value)

\* The write half with `target_row or 2`: no match overwrites row 2.
upsert_write_or_row2(cache, hdr, rows, target_row, row_dict, up) ==
    with_res(sheets_update_row_by_header(cache, hdr, rows,
                                         IF target_row # 0 THEN target_row ELSE 2,
                                         row_dict, up),
             [action |-> "updated", row |-> IF target_row # 0 THEN target_row ELSE 2])

\* The write half of the upsert: update the row found, or append.
upsert_write(cache, hdr, rows, target_row, row_dict, up) ==
    IF target_row # 0
    THEN with_res(sheets_update_row_by_header(cache, hdr, rows, target_row,
                                              row_dict, up),
                  [action |-> "updated", row |-> target_row])
    ELSE with_res(sheets_append_row_by_header(cache, hdr, rows, row_dict, up),
                  [action |-> "inserted"])

\* The read half: the key column, and the row of the key in it.
upsert_target(headers, hdr, rows, key_column, key_value) ==
    find_target_row(ws_col_values(hdr, rows, index_of(headers, key_column)),
                    key_value)

\* The upsert without its header check: a key column the header lacks is a key
\* that is not found.
upsert_unchecked(h, hdr, rows, key_column, key_value, row_dict, up) ==
    IF ~h.ok THEN Outcome(hdr, rows, h.cache, Err("NoHeaderRow"), h.log, <<>>)
    ELSE with_log(h.log \o <<"col_values">>,
                  upsert_write(h.cache, hdr, rows,
                               IF key_column \in Range(h.headers)
                               THEN upsert_target(h.headers, hdr, rows, key_column,
                                                  key_value)
                               ELSE 0,
                               row_dict, up))

\* sheets_upsert_row_by_key once _sheet_headers has answered h.
upsert_checked(h, hdr, rows, key_column, key_value, row_dict, up) ==
    IF ~h.ok THEN Outcome(hdr, rows, h.cache, Err("NoHeaderRow"), h.log, <<>>)
    ELSE IF key_column \notin Range(h.headers)
    THEN Outcome(hdr, rows, h.cache, Err("KeyColumnNotInHeader"), h.log, <<>>)
    ELSE with_log(h.log \o <<"col_values">>,
                  upsert_write(h.cache, hdr, rows,
                               upsert_target(h.headers, hdr, rows, key_column,
                                             key_value),
                               row_dict, up))

sheets_upsert_row_by_key(cache, hdr, rows, key_column, key_value, row_dict, up) ==
    upsert_checked(sheet_headers(cache, hdr), hdr, rows, key_column, key_value,
                   row_dict, up)

\* ---------------------------------------------------------------- main.py
\* An Optional request field that was not supplied.
NoneV == [t |-> "none", v |-> ""]

\* Python truthiness of a value.
truthy(v) == CASE v.t = "none" -> FALSE
               [] v.t = "str" -> v.v # ""
               [] v.t = "num" -> v.v # 0
               [] OTHER -> Len(v.v) > 0

\* v or ""
or_empty(v) == IF truthy(v) THEN v ELSE Str("")

\* v if v is not None else ""
not_none_or_empty(v) == IF v.t = "none" THEN Str("") ELSE v

RECURSIVE join(_, _)
join(sep, xs) ==
    IF Len(xs) = 0 THEN ""
    ELSE IF Len(xs) = 1 THEN xs[1]
    ELSE xs[1] \o sep \o join(sep, Tail(xs))

\* dict.update and dict.setdefault (TLC's @@ keeps its left operand's entries).
dict_update(d, e) == e @@ d
setdefault(d, k, v) == d @@ (k :> v)

\* The for loop of a batch append: one sheets_append_row_by_header per item,
\* in item order; an exception leaves the loop and the handler.  The store
\* refuses write number failAt (0: none).
RECURSIVE append_each(_, _, _, _, _, _)
\* The loop with the failed write swallowed: it goes on to the next item.
append_next_swallow(o, dicts, i, failAt) ==
    with_log(o.log, append_each(o.cache, o.hdr, o.rows, dicts, i + 1, failAt))

append_next(o, dicts, i, failAt) ==
    IF o.res.status = "error" THEN o
    ELSE with_log(o.log, append_each(o.cache, o.hdr, o.rows, dicts, i + 1, failAt))

append_each(c, h, rs, dicts, i, failAt) ==
    IF i > Len(dicts) THEN Outcome(h, rs, c, Ok(None), <<>>, <<>>)
    ELSE append_next(sheets_append_row_by_header(c, h, rs, dicts[i], i # failAt),
                     dicts, i, failAt)

transaction_row(t, now) ==
    [date |-> Str(t.date), amount |-> Num(t.amount), type |-> Str(t.type),
     category |-> Str(t.category), subcategory |-> or_empty(t.subcategory),
     account |-> or_empty(t.account), notes |-> or_empty(t.notes),
     month |-> Str(t.month), tags |-> Str(join(",", t.tags)),
     created_at |-> Str(now)]

add_transactions(c, h, rs, items, now, failAt) ==
    with_res(append_each(c, h, rs,
                         [i \in 1..Len(items) |-> transaction_row(items[i], now)],
                         1, failAt),
             [inserted |-> Len(items)])

holding_row(as_of, x, now) ==
    [as_of_date |-> Str(as_of), asset_type |-> Str(x.asset_type),
     name_or_ticker |-> Str(x.name), qty |-> not_none_or_empty(x.qty),
     avg_cost |-> not_none_or_empty(x.avg_cost),
     current_price |-> not_none_or_empty(x.current_price),
     current_value |-> Num(x.current_value), account |-> or_empty(x.account),
     notes |-> or_empty(x.notes), updated_at |-> Str(now)]

upsert_holdings(c, h, rs, as_of, items, now, failAt) ==
    with_res(append_each(c, h, rs,
                         [i \in 1..Len(items) |-> holding_row(as_of, items[i], now)],
                         1, failAt),
             [updated |-> Len(items)])

\* The assets alone, the liabilities forgotten.
net_worth_assets_only(req) ==
    req.cash_bank + req.fd_total + req.ppf_balance + req.equity_value + req.mf_value
        + req.other_assets

\* net of add_networth.  The amounts are whole numbers, on which the float sums
\* of the code are exact.
net_worth(req) ==
    (req.cash_bank + req.fd_total + req.ppf_balance + req.equity_value + req.mf_value
        + req.other_assets)
    - (req.liabilities_cc + req.liabilities_loans)

networth_row(req, net, now) ==
    [date |-> Str(req.date), cash_bank |-> Num(req.cash_bank),
     fd_total |-> Num(req.fd_total), ppf_balance |-> Num(req.ppf_balance),
     equity_value |-> Num(req.equity_value), mf_value |-> Num(req.mf_value),
     other_assets |-> Num(req.other_assets),
     liabilities_cc |-> Num(req.liabilities_cc),
     liabilities_loans |-> Num(req.liabilities_loans), net_worth |-> Num(net),
     notes |-> or_empty(req.notes), created_at |-> Str(now)]

add_networth(c, h, rs, req, now, up) ==
    with_res(sheets_append_row_by_header(c, h, rs,
                                         networth_row(req, net_worth(req), now), up),
             [net_worth |-> Num(net_worth(req))])

Abs(x) == IF x < 0 THEN 0 - x ELSE x

RECURSIVE Gcd(_, _)
Gcd(a, b) == IF b = 0 THEN a ELSE Gcd(b, a % b)

\* The number n / d (d not 0): a whole number where d divides n, else the
\* fraction in lowest terms.  It stands for the float nearest to it.
Rat(n, d) ==
    IF Abs(d) \div Gcd(Abs(n), Abs(d)) = 1
    THEN Num((IF (n < 0) = (d < 0) THEN 1 ELSE 0 - 1) * (Abs(n) \div Abs(d)))
    ELSE [t |-> "rat",
          v |-> <<(IF (n < 0) = (d < 0) THEN 1 ELSE 0 - 1)
                     * (Abs(n) \div Gcd(Abs(n), Abs(d))),
                  Abs(d) \div Gcd(Abs(n), Abs(d))>>]

\* a / b of two ints: ZeroDivisionError where b is 0.
true_div(a, b) ==
    IF b = 0 THEN [t |-> "raise", v |-> "ZeroDivisionError"] ELSE Rat(a, b)

\* x * k, x a quotient.
times(x, k) ==
    IF x.t = "raise" THEN x
    ELSE IF x.t = "num" THEN Num(x.v * k)
    ELSE Rat(x.v[1] * k, x.v[2])

\* The quotient taken whatever the total is.
win_rate_unguarded(win_count, loss_count) ==
    times(true_div(win_count, win_count + loss_count), 100)

\* win_rate of close_month.
win_rate(win_count, loss_count) ==
    IF win_count + loss_count # 0
    THEN times(true_div(win_count, win_count + loss_count), 100)
    ELSE Num(0)

\* end_nw - start_nw where both months have a snapshot.
net_change(end_nw, start_nw) ==
    IF end_nw.t # "none" /\ start_nw.t # "none" THEN Num(end_nw.v - start_nw.v)
    ELSE NoneV

month_row(req, rate, end_nw, start_nw, now) ==
    [month |-> Str(req.month), start_net_worth |-> not_none_or_empty(start_nw),
     end_net_worth |-> not_none_or_empty(end_nw),
     net_change |-> not_none_or_empty(net_change(end_nw, start_nw)),
     realized_pnl |-> Num(req.realized_pnl),
     unrealized_pnl |-> Num(req.unrealized_pnl), win_count |-> Num(req.win_count),
     loss_count |-> Num(req.loss_count), win_rate |-> rate,
     notes |-> or_empty(req.notes), closed_at |-> Str(now)]

close_month_with(c, h, rs, req, rate, end_nw, start_nw, now, up) ==
    IF rate.t = "raise" THEN Outcome(h, rs, c, Err(rate.v), <<>>, <<>>)
    ELSE with_log(<<"get_all_records", "get_all_records">>,
                  with_res(sheets_append_row_by_header(
                               c, h, rs, month_row(req, rate, end_nw, start_nw, now),
                               up),
                           [month |-> req.month, win_rate |-> rate]))

\* end_nw and start_nw are what _get_latest_networth_for_month finds in the
\* NetWorth_Snapshots tab for the month and the month before.
close_month(c, h, rs, req, end_nw, start_nw, now, up) ==
    close_month_with(c, h, rs, req, win_rate(req.win_count, req.loss_count), end_nw,
                     start_nw, now, up)

\* r.get(k, "") on a record of get_all_records.
rec_get(r, k) == IF k \in DOMAIN r THEN r[k] ELSE ""

\* existing_created_at after the rows from i on: a later row of the same
\* trimmed name replaces an earlier one's entry; a blank name adds none.
RECURSIVE created_at_map(_, _, _, _)
created_at_map(recs, i, key, m) ==
    IF i > Len(recs) THEN m
    ELSE LET name == strip(rec_get(recs[i], key)) IN
         created_at_map(recs, i + 1, key,
                        IF name # "" THEN (name :> rec_get(recs[i], "created_at")) @@ m
                        ELSE m)

\* existing_created_at.get(name, "") or now
created_at_for(m, name, now) ==
    IF name \in DOMAIN m /\ m[name] # "" THEN m[name] ELSE now

goal_row(g, created_at, now) ==
    [goal_name |-> Str(g.goal_name), target_amount |-> Num(g.target_amount),
     target_date |-> Str(g.target_date), priority |-> Num(g.priority),
     current_saved |-> Num(g.current_saved),
     monthly_required |-> not_none_or_empty(g.monthly_required),
     status |-> Str(g.status), notes |-> or_empty(g.notes),
     created_at |-> Str(created_at), updated_at |-> Str(now)]

\* The for loop of upsert_goals from item i on; results collects what each
\* sheets_upsert_row_by_key returned (the outcome carries it as `written`).
RECURSIVE upsert_each(_, _, _, _, _, _, _, _, _)
upsert_next(o, items, i, m, now, failAt, results) ==
    IF o.res.status = "error" THEN [o EXCEPT !.written = results]
    ELSE with_log(o.log, upsert_each(o.cache, o.hdr, o.rows, items, i + 1, m, now,
                                     failAt, Append(results, o.res.ret)))

upsert_each(c, h, rs, items, i, m, now, failAt, results) ==
    IF i > Len(items)
    THEN Outcome(h, rs, c, Ok([ok |-> TRUE, results |-> results]), <<>>, results)
    ELSE upsert_next(
             sheets_upsert_row_by_key(
                 c, h, rs, "goal_name", items[i].goal_name,
                 goal_row(items[i], created_at_for(m, items[i].goal_name, now), now),
                 i # failAt),
             items, i, m, now, failAt, results)

upsert_goals(c, h, rs, items, now, failAt) ==
    with_log(<<"get_all_records">>,
             upsert_each(c, h, rs, items, 1,
                         created_at_map(sheets_get_all_records(h, rs), 1,
                                        "goal_name", <<>>),
                         now, failAt, <<>>))

plan_year_row(req, created_at) ==
    [fy |-> Str(req.fy), ppf_target |-> not_none_or_empty(req.ppf_target),
     ppf_monthly |-> not_none_or_empty(req.ppf_monthly),
     total_invest_target |-> not_none_or_empty(req.total_invest_target),
     emergency_target |-> not_none_or_empty(req.emergency_target),
     big_purchases_json |-> IF req.big_purchases_json.t # "none"
                            THEN req.big_purchases_json ELSE Dct(<<>>),
     notes |-> or_empty(req.notes), created_at |-> Str(created_at)]

with_ok(o) == IF o.res.status = "ok" THEN with_res(o, [ok |-> TRUE] @@ o.res.ret) ELSE o

upsert_plan_year(c, h, rs, req, now, up) ==
    with_log(<<"get_all_records">>,
             with_ok(sheets_upsert_row_by_key(
                         c, h, rs, "fy", req.fy,
                         plan_year_row(req,
                                       created_at_for(
                                           created_at_map(sheets_get_all_records(h, rs),
                                                          1, "fy", <<>>),
                                           req.fy, now)),
                         up)))

\* os.getenv defaults of the settings.
DefaultCurrency == "INR"
DefaultFiscalYearStartMonth == 4
DefaultMode == "balanced"
DefaultPpfAnnualTarget == 150000

\* req.model_dump(exclude_none=True)
model_dump_exclude_none(req) ==
    [k \in {f \in DOMAIN req : req[f].t # "none"} |-> req[k]]

\* The values a record of get_all_records holds, as Python values.
as_dict(r) == [k \in DOMAIN r |-> Str(r[k])]

\* rows[0] or {} when there is a first record, {} otherwise.
settings_existing(recs) == IF Len(recs) >= 1 THEN as_dict(recs[1]) ELSE <<>>

\* merged: the existing row 2, the request's fields over it, then setdefault.
settings_merged(h, rs, req) ==
    setdefault(setdefault(setdefault(setdefault(setdefault(setdefault(
        dict_update(settings_existing(sheets_get_all_records(h, rs)),
                    model_dump_exclude_none(req)),
        "currency", Str(DefaultCurrency)),
        "fiscal_year_start_month", Num(DefaultFiscalYearStartMonth)),
        "risk_mode", Str(DefaultMode)),
        "ppf_annual_target", Num(DefaultPpfAnnualTarget)),
        "default_allocations_json", Dct(<<>>)),
        "goal_priorities_json", Dct(<<>>))

\* update_settings writing through the append: a new row per call.
update_settings_append(c, h, rs, req) ==
    with_log(<<"get_all_records">>,
             sheets_append_row_by_header(c, h, rs, settings_merged(h, rs, req), TRUE))

update_settings(c, h, rs, req) ==
    with_log(<<"get_all_records">>,
             sheets_update_row_by_header(c, h, rs, 2, settings_merged(h, rs, req),
                                         TRUE))

\* ------------------------------------------------------------------ state
VARIABLES
    tab_name,   \* the worksheet tab this run works on
    hdr,        \* its row 1 in the store
    rows,       \* its data rows in the store: rows[i] is sheet row i + 1
    cache,      \* the header row _sheet_headers holds for it (<<>>: none yet)
    before,     \* hdr, rows and cache as they were when the last call began
    call,       \* the last call: its name, its arguments, what it did
    callers     \* the concurrent upserts in flight: where each one is

vars == <<tab_name, hdr, rows, cache, before, call, callers>>

Snapshot == [hdr |-> hdr, rows |-> rows, cache |-> cache]

\* The store and the cache take the outcome o of a call; `call` records the
\* call's arguments (args) with what it returned, logged and wrote.
Commit(o, args) ==
    /\ hdr' = o.hdr
    /\ rows' = o.rows
    /\ cache' = o.cache
    /\ before' = Snapshot
    /\ call' = args @@ [res |-> o.res, log |-> o.log, written |-> o.written]
    /\ UNCHANGED <<tab_name, callers>>

\* --------------------------------------------- inputs of the service calls
\* A tab any caller may name, with the header rows it may have been given.
GenericTab == "Ledger"

HeadersOf(tab) ==
    CASE tab = GenericTab -> {<<"id", "val">>, <<"val", "tags", "id">>, <<>>}
      [] tab = "Transactions" -> {<<"category", "amount", "tags">>}
      [] tab = "Holdings" -> {<<"name_or_ticker", "qty", "as_of_date">>}
      [] tab = "Goals" -> {<<"goal_name", "current_saved", "created_at">>}
      [] tab = "Plan_Year" -> {<<"fy", "notes", "created_at">>}
      [] tab = "NetWorth_Snapshots" -> {<<"date", "liabilities_cc", "net_worth">>}
      [] tab = "Performance_Monthly" -> {<<"win_rate", "net_change", "notes">>}
      [] tab = "Settings" -> {<<"currency", "risk_mode", "note">>,
                              <<"default_allocations_json", "currency">>}

\* The data rows a run may find in the tab (the sheet outlives the process).
RowsAtStart(tab, h) ==
    CASE tab = "Goals" -> {<<>>, << <<"car", "5", "T0">> >>}
      [] tab = "Plan_Year" -> {<<>>, << <<"FY26", "", "T0">> >>}
      [] tab = "Settings" ->
            {<<>>} \cup (IF Len(h) = 3 THEN {<< <<"USD", "", "mine">> >>}
                         ELSE {<< <<"{}", "EUR">> >>})
      [] OTHER -> {<<>>}

Tabs == {GenericTab, "Transactions", "Holdings", "Goals", "Settings",
         "NetWorth_Snapshots", "Performance_Monthly", "Plan_Year"}

KeyColumns == {"id", "owner"}
KeyValues == {"a", " a ", "", "id"}

\* The key values an upsert on key_column is called with: one is enough on a
\* field no header has.
KeyValuesOn(key_column) == IF key_column = "id" THEN KeyValues ELSE {"a"}

RowDicts ==
    { [id |-> Str("a"), val |-> Str("x"), owner |-> Str("me")],
      [id |-> Str(" a "), tags |-> Lst(<<"p", "q">>)],
      [val |-> Num(12), tags |-> Dct(<< <<"k", "v">> >>)],
      [id |-> Str("b"), val |-> Str("y")] }

\* The mappings a row is overwritten with: one with a field no header has, one
\* with a number and a dict and no id.
UpdateDicts == {rd \in RowDicts : "owner" \in DOMAIN rd \/ "id" \notin DOMAIN rd}

\* utc_now_iso() at the calls of a run.
Times == {"T1"}

Transactions ==
    { [date |-> "2026-01-05", amount |-> 250, type |-> "expense", category |-> "food",
       subcategory |-> NoneV, account |-> Str("cash"), notes |-> NoneV,
       month |-> "2026-01", tags |-> <<"a", "b">>],
      [date |-> "2026-01-06", amount |-> 9000, type |-> "income", category |-> "pay",
       subcategory |-> Str("base"), account |-> NoneV, notes |-> Str(""),
       month |-> "2026-01", tags |-> <<>>] }

HoldingItems ==
    { [asset_type |-> "stock", name |-> "ACME", qty |-> Num(3), avg_cost |-> NoneV,
       current_price |-> NoneV, current_value |-> 300, account |-> NoneV,
       notes |-> NoneV],
      [asset_type |-> "fd", name |-> "FD1", qty |-> NoneV, avg_cost |-> NoneV,
       current_price |-> NoneV, current_value |-> 5000, account |-> Str("bank"),
       notes |-> NoneV] }

GoalItems ==
    { [goal_name |-> "car", target_amount |-> 900, target_date |-> "2027-01",
       priority |-> 1, current_saved |-> 10, monthly_required |-> NoneV,
       status |-> "active", notes |-> NoneV],
      [goal_name |-> "trip", target_amount |-> 50, target_date |-> "2026-12",
       priority |-> 2, current_saved |-> 0, monthly_required |-> Num(5),
       status |-> "active", notes |-> Str("n")] }

\* The goals again, and one named with a leading blank.
SpacedGoalItems ==
    GoalItems \cup
    { [goal_name |-> " car", target_amount |-> 900, target_date |-> "2027-06",
       priority |-> 1, current_saved |-> 20, monthly_required |-> NoneV,
       status |-> "active", notes |-> NoneV] }

PlanYearRequests ==
    { [fy |-> fy, ppf_target |-> NoneV, ppf_monthly |-> NoneV,
       total_invest_target |-> Num(500), emergency_target |-> NoneV,
       big_purchases_json |-> NoneV, notes |-> notes] :
        fy \in {"FY26", " FY26", "FY27"}, notes \in {NoneV, Str("n")} }

NetWorthSnapshots ==
    { [date |-> "2026-01-31", cash_bank |-> 10000, fd_total |-> 5000,
       ppf_balance |-> 2000, equity_value |-> 0, mf_value |-> 0, other_assets |-> 0,
       liabilities_cc |-> 1000, liabilities_loans |-> 0, notes |-> NoneV],
      [date |-> "2026-02-28", cash_bank |-> 0, fd_total |-> 0, ppf_balance |-> 0,
       equity_value |-> 0, mf_value |-> 0, other_assets |-> 0, liabilities_cc |-> 0,
       liabilities_loans |-> 0, notes |-> Str("n")],
      [date |-> "2026-03-31", cash_bank |-> 1, fd_total |-> 2, ppf_balance |-> 4,
       equity_value |-> 8, mf_value |-> 16, other_assets |-> 32,
       liabilities_cc |-> 64, liabilities_loans |-> 128, notes |-> NoneV],
      [date |-> "2026-04-30", cash_bank |-> 500, fd_total |-> 0, ppf_balance |-> 0,
       equity_value |-> 0 - 40, mf_value |-> 0, other_assets |-> 0,
       liabilities_cc |-> 0, liabilities_loans |-> 300, notes |-> NoneV] }

MonthCloseRequests ==
    { [month |-> "2026-01", realized_pnl |-> 0, unrealized_pnl |-> 0, notes |-> NoneV,
       win_count |-> w, loss_count |-> l] :
        <<w, l>> \in {<<3, 1>>, <<0, 0>>, <<1, 0 - 1>>, <<1, 2>>, <<2, 0 - 3>>} }

\* The latest net worth of the month and of the month before: none, or both.
LatestNetworths == {<<NoneV, NoneV>>, <<Num(250), Num(100)>>}

SettingsRequests ==
    { [currency |-> NoneV, fiscal_year_start_month |-> NoneV, risk_mode |-> NoneV,
       default_allocations_json |-> NoneV, ppf_annual_target |-> NoneV,
       goal_priorities_json |-> NoneV],
      [currency |-> Str("GBP"), fiscal_year_start_month |-> Num(1),
       risk_mode |-> NoneV, default_allocations_json |-> NoneV,
       ppf_annual_target |-> NoneV, goal_priorities_json |-> NoneV],
      [currency |-> NoneV, fiscal_year_start_month |-> NoneV,
       risk_mode |-> Str("bold"),
       default_allocations_json |-> Dct(<< <<"eq", "60">> >>),
       ppf_annual_target |-> NoneV, goal_priorities_json |-> NoneV] }

\* Two request threads of the server.
Callers == {1, 2}

\* The batches of at most MaxBatch items.
Batches(S) == UNION {[1..n -> S] : n \in 0..MaxBatch}

\* ---------------------------------------------------------------- actions
AppendRow ==
    /\ tab_name = GenericTab
    /\ Len(rows) < MaxRows
    /\ \E row_dict \in RowDicts :
          Commit(sheets_append_row_by_header(cache, hdr, rows, row_dict, TRUE),
                 [op |-> "append", row_dict |-> row_dict])

UpdateRow ==
    /\ tab_name = GenericTab
    /\ \E n \in 2..(MaxRows + 1), row_dict \in UpdateDicts :
          Commit(sheets_update_row_by_header(cache, hdr, rows, n, row_dict, TRUE),
                 [op |-> "update", row_number |-> n, row_dict |-> row_dict])

UpsertRow ==
    /\ tab_name = GenericTab
    /\ \E key_column \in KeyColumns, row_dict \in RowDicts :
       \E key_value \in KeyValuesOn(key_column) :
          /\ Commit(sheets_upsert_row_by_key(cache, hdr, rows, key_column,
                                             key_value, row_dict, TRUE),
                    [op |-> "upsert", key_column |-> key_column,
                     key_value |-> key_value, row_dict |-> row_dict])
          /\ Len(rows') <= MaxRows

AddTransactions ==
    /\ tab_name = "Transactions"
    /\ \E items \in Batches(Transactions), now \in Times :
          /\ Len(rows) + Len(items) <= MaxRows
          /\ \E failAt \in 0..Len(items) :
                Commit(add_transactions(cache, hdr, rows, items, now, failAt),
                       [op |-> "add_transactions", items |-> items, now |-> now,
                        failAt |-> failAt])

UpsertHoldings ==
    /\ tab_name = "Holdings"
    /\ \E items \in Batches(HoldingItems), now \in Times :
          /\ Len(rows) + Len(items) <= MaxRows
          /\ \E failAt \in 0..Len(items) :
                Commit(upsert_holdings(cache, hdr, rows, "2026-01-31", items, now,
                                       failAt),
                       [op |-> "upsert_holdings", items |-> items, now |-> now,
                        failAt |-> failAt])

UpsertGoals ==
    /\ tab_name = "Goals"
    /\ \E items \in Batches(GoalItems), now \in Times :
          \E failAt \in 0..Len(items) :
             /\ Commit(upsert_goals(cache, hdr, rows, items, now, failAt),
                       [op |-> "upsert_goals", items |-> items, now |-> now,
                        failAt |-> failAt])
             /\ Len(rows') <= MaxRows

UpsertSpacedGoals ==
    /\ tab_name = "Goals"
    /\ \E items \in Batches(SpacedGoalItems), now \in Times :
          \E failAt \in 0..Len(items) :
             /\ Commit(upsert_goals(cache, hdr, rows, items, now, failAt),
                       [op |-> "upsert_goals", items |-> items, now |-> now,
                        failAt |-> failAt])
             /\ Len(rows') <= MaxRows

AddNetworth ==
    /\ tab_name = "NetWorth_Snapshots"
    /\ Len(rows) < MaxRows
    /\ \E req \in NetWorthSnapshots, now \in Times, up \in BOOLEAN :
          Commit(add_networth(cache, hdr, rows, req, now, up),
                 [op |-> "add_networth", req |-> req, now |-> now])

CloseMonth ==
    /\ tab_name = "Performance_Monthly"
    /\ Len(rows) < MaxRows
    /\ \E req \in MonthCloseRequests, nw \in LatestNetworths, now \in Times,
          up \in BOOLEAN :
          Commit(close_month(cache, hdr, rows, req, nw[1], nw[2], now, up),
                 [op |-> "close_month", req |-> req, now |-> now])

UpsertPlanYear ==
    /\ tab_name = "Plan_Year"
    /\ \E req \in PlanYearRequests, now \in Times, up \in BOOLEAN :
          /\ Commit(upsert_plan_year(cache, hdr, rows, req, now, up),
                    [op |-> "upsert_plan_year", req |-> req, now |-> now])
          /\ Len(rows') <= MaxRows

UpdateSettings ==
    /\ tab_name = "Settings"
    /\ \E req \in SettingsRequests :
          Commit(update_settings(cache, hdr, rows, req),
                 [op |-> "update_settings", req |-> req])

Init ==
    /\ tab_name \in Tabs
    /\ hdr \in HeadersOf(tab_name)
    /\ rows \in RowsAtStart(tab_name, hdr)
    /\ cache = <<>>
    /\ before = [hdr |-> hdr, rows |-> rows, cache |-> cache]
    /\ call = [op |-> "none"]
    /\ callers = [c \in Callers |-> [pc |-> "idle"]]

Next ==
    \/ AppendRow
    \/ UpdateRow
    \/ UpsertRow
    \/ AddTransactions
    \/ UpsertHoldings
    \/ UpsertGoals
    \/ UpdateSettings
    \/ AddNetworth
    \/ CloseMonth
    \/ UpsertPlanYear

Spec == Init /\ [][Next]_vars

\* ------------------------------------------- names with blanks around them
InitNames ==
    /\ Init
    /\ tab_name \in {"Goals", "Plan_Year"}

NextNames == UpsertSpacedGoals \/ UpsertPlanYear

SpecNames == InitNames /\ [][NextNames]_vars

\* ------------------------------------------------- the remote header edited
\* Someone edits row 1 of the tab in the spreadsheet, outside the process.
EditHeader ==
    /\ tab_name = GenericTab
    /\ \E h \in HeadersOf(GenericTab) :
          /\ h # hdr
          /\ hdr' = h
    /\ before' = Snapshot
    /\ call' = [op |-> "edit_header"]
    /\ UNCHANGED <<tab_name, rows, cache, callers>>

InitStale ==
    /\ Init
    /\ tab_name = GenericTab

NextStale == AppendRow \/ UpdateRow \/ UpsertRow \/ EditHeader

SpecStale == InitStale /\ [][NextStale]_vars

\* --------------------------------------------------- two upserts at a time
\* The handlers run on the server's thread pool; an upsert is two remote
\* operations, the key column's read and the write, and another caller's
\* operation can come between them.
RaceKeys == {"a", "b"}
RaceDicts(k) == {[id |-> Str(k), val |-> Str("x")], [id |-> Str(k), val |-> Str("y")]}

\* Lines 182-196 for caller c: the headers, the header check, the key column and
\* the scan of it.
race_scan(h, c, key_value, row_dict) ==
    IF ~h.ok \/ "id" \notin Range(h.headers)
    THEN [pc |-> "done", key_value |-> key_value, row_dict |-> row_dict,
          res |-> Err("KeyColumnNotInHeader")]
    ELSE [pc |-> "scanned", key_value |-> key_value, row_dict |-> row_dict,
          target_row |-> upsert_target(h.headers, hdr, rows, "id", key_value)]

\* The write under a lock held since the scan: the row is the one a scan finds
\* now.
race_write_locked(c) ==
    upsert_write(cache, hdr, rows,
                 upsert_target(cache, hdr, rows, "id", callers[c].key_value),
                 callers[c].row_dict, TRUE)

\* Lines 198-204 for caller c: the write, on the row its own scan found.
race_write(c) ==
    upsert_write(cache, hdr, rows, callers[c].target_row, callers[c].row_dict, TRUE)

RaceScan(c) ==
    /\ callers[c].pc = "idle"
    /\ \E key_value \in RaceKeys :
          \E row_dict \in RaceDicts(key_value) :
             /\ callers' = [callers EXCEPT ![c] =
                               race_scan(sheet_headers(cache, hdr), c, key_value,
                                         row_dict)]
             /\ cache' = sheet_headers(cache, hdr).cache
    /\ UNCHANGED <<tab_name, hdr, rows, before, call>>

RaceCommit(c, o) ==
    /\ hdr' = o.hdr
    /\ rows' = o.rows
    /\ cache' = o.cache
    /\ callers' = [callers EXCEPT ![c] =
                      [pc |-> "done", key_value |-> callers[c].key_value,
                       row_dict |-> callers[c].row_dict,
                       target_row |-> callers[c].target_row, res |-> o.res]]
    /\ UNCHANGED <<tab_name, before, call>>

RaceWrite(c) ==
    /\ callers[c].pc = "scanned"
    /\ RaceCommit(c, race_write(c))

\* The tab as the two callers find it; `before` keeps it.
InitRace ==
    /\ tab_name = GenericTab
    /\ hdr \in {<<"id", "val">>, <<"val", "tags", "id">>}
    /\ rows \in {<<>>, << build_row(hdr, [id |-> Str("b"), val |-> Str("z")]) >>,
                 << build_row(hdr, [id |-> Str("c")]),
                    build_row(hdr, [id |-> Str(" a"), val |-> Str("z")]) >>}
    /\ cache \in {<<>>, hdr}
    /\ before = [hdr |-> hdr, rows |-> rows, cache |-> cache]
    /\ call = [op |-> "none"]
    /\ callers = [c \in Callers |-> [pc |-> "idle"]]

NextRace == \E c \in Callers : RaceScan(c) \/ RaceWrite(c)

SpecRace == InitRace /\ [][NextRace]_vars

\* ----------------------------------------------------------------- claims
\* The header row the last call aligned to.
UsedHeader == IF before.cache # <<>> THEN before.cache ELSE before.hdr

\* The column of field f in header row H.
KeyPos(H, f) == CHOOSE j \in 1..Len(H) : H[j] = f

\* The data rows of rs (as indexes: sheet row i + 1) whose cell in column idx,
\* trimmed, equals k trimmed.
Matches(rs, idx, k) == {i \in 1..Len(rs) : strip(cell_at(rs[i], idx)) = strip(k)}

\* The cell header field f gets from mapping M.
AlignedCell(M, f) ==
    IF f \notin DOMAIN M THEN ""
    ELSE IF M[f].t \in {"list", "dict"} THEN json_dumps(M[f])
    ELSE IF M[f].t = "num" THEN IntText(M[f].v)
    ELSE M[f].v

\* row is the image of M under header row H.
IsAligned(row, H, M) ==
    /\ Len(row) = Len(H)
    /\ \A j \in 1..Len(H) : row[j] = AlignedCell(M, H[j])

\* The last call was an upsert on a key field of the header.
UpsertOnHeaderKey ==
    /\ call.op = "upsert"
    /\ call.key_column \in Range(UsedHeader)

\* The records a read of the tab returns whose key field equals k.
ReadWithKey(f, k) ==
    {i \in 1..Len(rows) : sheets_get_all_records(hdr, rows)[i][f] = k}

UpsertMissed ==
    /\ UpsertOnHeaderKey
    /\ Matches(before.rows, KeyPos(UsedHeader, call.key_column), call.key_value) = {}

InsertedOne ==
    /\ call.res.status = "ok"
    /\ call.res.ret.action = "inserted"
    /\ "row" \notin DOMAIN call.res.ret
    /\ Len(rows) = Len(before.rows) + 1
    /\ Cardinality(ReadWithKey(call.key_column, call.key_value)) = 1

MapsKeyToValue ==
    /\ call.key_column \in DOMAIN call.row_dict
    /\ call.row_dict[call.key_column].t = "str"
    /\ call.row_dict[call.key_column].v = call.key_value

C2_UpdateInPlace ==
    (UpsertOnHeaderKey
     /\ Matches(before.rows, KeyPos(UsedHeader, call.key_column), call.key_value) # {})
    =>
        /\ call.res.status = "ok"
        /\ call.res.ret.action = "updated"
        /\ call.res.ret.row - 1 \in
              Matches(before.rows, KeyPos(UsedHeader, call.key_column), call.key_value)
        /\ IsAligned(rows[call.res.ret.row - 1], UsedHeader, call.row_dict)
        /\ "append_row" \notin Range(call.log)
        /\ Len(rows) = Len(before.rows)

\* An update that replaced a row holding other values, with a mapping that
\* leaves a header field out.
C2_Witness ==
    /\ UpsertOnHeaderKey
    /\ call.res.status = "ok"
    /\ call.res.ret.action = "updated"
    /\ call.res.ret.row = 3
    /\ Range(UsedHeader) \ DOMAIN call.row_dict # {}
    /\ \E j \in 1..Len(UsedHeader) :
          /\ UsedHeader[j] \notin DOMAIN call.row_dict
          /\ cell_at(before.rows[2], j) # ""
          /\ rows[2][j] = ""

\* The lowest row holding the key.
FirstMatch(S) == CHOOSE i \in S : \A j \in S : i <= j

\* C3: when two or more data rows hold key k, the upsert updates only the one
\* with the lowest row number; every other row, each higher duplicate of k
\* included, is cell for cell what it was.
C3_FirstDuplicateOnly ==
    (UpsertOnHeaderKey
     /\ Cardinality(Matches(before.rows, KeyPos(UsedHeader, call.key_column),
                            call.key_value)) >= 2)
    =>
        /\ call.res.status = "ok"
        /\ call.res.ret.action = "updated"
        /\ call.res.ret.row - 1 =
              FirstMatch(Matches(before.rows, KeyPos(UsedHeader, call.key_column),
                                 call.key_value))
        /\ Len(rows) = Len(before.rows)
        /\ \A i \in 1..Len(rows) : i # call.res.ret.row - 1 => rows[i] = before.rows[i]

\* Two duplicates below an unrelated first row; the update changed the first
\* duplicate and the second still holds the key.
C3_Witness ==
    /\ UpsertOnHeaderKey
    /\ Matches(before.rows, KeyPos(UsedHeader, call.key_column), call.key_value) = {2, 3}
    /\ call.res.status = "ok"
    /\ call.res.ret.row = 3
    /\ rows[2] # before.rows[2]
    /\ rows[3] = before.rows[3]

\* The last call built a row and handed it to the store.
WroteAligned ==
    /\ call.op \in {"append", "update", "upsert"}
    /\ call.res.status = "ok"

\* C4: the row sheets_append_row_by_header and sheets_update_row_by_header build
\* has exactly |H| cells; the cell of header field f is M[f] (its JSON text when
\* M[f] is a list or a dict) when f is in M and "" otherwise; a key of M that is
\* not in H contributes no cell.
C4_HeaderAligned ==
    WroteAligned =>
        /\ IsAligned(call.written, UsedHeader, call.row_dict)
        /\ \A j \in 1..Len(UsedHeader) :
              /\ (UsedHeader[j] = "tags" /\ "tags" \in DOMAIN call.row_dict
                  /\ call.row_dict["tags"] = Lst(<<"p", "q">>))
                 => call.written[j] = "[\"p\", \"q\"]"
              /\ (UsedHeader[j] = "tags" /\ "tags" \in DOMAIN call.row_dict
                  /\ call.row_dict["tags"] = Dct(<< <<"k", "v">> >>))
                 => call.written[j] = "{\"k\": \"v\"}"
              /\ (UsedHeader[j] = "val" /\ "val" \in DOMAIN call.row_dict
                  /\ call.row_dict["val"] = Num(12))
                 => call.written[j] = "12"

\* A row built from a mapping that holds a list and lacks the header's field
\* val: the list as its JSON text, val blank.
C4_Witness ==
    /\ call.op \in {"append", "update"}
    /\ call.res.status = "ok"
    /\ UsedHeader = <<"val", "tags", "id">>
    /\ call.written = <<"", "[\"p\", \"q\"]", " a ">>

\* The rows of the tab before the last call that the call changed.
Changed == {i \in 1..Len(before.rows) : i > Len(rows) \/ rows[i] # before.rows[i]}

\* C6: the number of data rows never decreases and the rows there before a call
\* keep their row numbers: an append adds only a new last row, an update or an
\* upsert on a match changes one row in place and moves no other.
C6_RowsKeepTheirPlace ==
    /\ Len(rows) >= Len(before.rows)
    /\ (call.op = "append" /\ call.res.status = "ok")
          => rows = Append(before.rows, call.written)
    /\ (call.op = "update" /\ call.res.status = "ok")
          => Changed \subseteq {call.row_number - 1}
    /\ (call.op = "upsert" /\ call.res.status = "ok" /\ call.res.ret.action = "updated")
          => /\ Changed \subseteq {call.res.ret.row - 1}
             /\ Len(rows) = Len(before.rows)
    /\ (call.op = "upsert" /\ call.res.status = "ok" /\ call.res.ret.action = "inserted")
          => rows = Append(before.rows, call.written)
    /\ call.op \in {"add_transactions", "upsert_holdings"} => Changed = {}

\* An update of the middle row of three, the first and the last left as they
\* were.
C6_Witness ==
    /\ Len(before.rows) = 3
    /\ call.op = "update"
    /\ call.row_number = 3
    /\ Changed = {2}
    /\ before.rows[1] # before.rows[3]

\* C7: an upsert on a key field the header lacks fails before it reads the key
\* column or writes: the rows are what they were.
C7_UnknownKeyColumnFails ==
    (call.op = "upsert" /\ call.key_column \notin Range(UsedHeader))
    =>
        /\ call.res.status = "error"
        /\ rows = before.rows
        /\ hdr = before.hdr
        /\ Range(call.log) \subseteq {"row_values"}

C7_Witness ==
    /\ call.op = "upsert"
    /\ UsedHeader # <<>>
    /\ call.key_column \notin Range(UsedHeader)
    /\ call.key_column \in DOMAIN call.row_dict
    /\ call.res.status = "error"
    /\ call.res.kind = "KeyColumnNotInHeader"
    /\ Len(rows) = 2

\* The last call was a batch write whose store write for item failAt failed.
BatchFailed ==
    /\ call.op \in {"add_transactions", "upsert_holdings", "upsert_goals"}
    /\ call.failAt >= 1

\* The mapping the batch handler builds for item i of the last call.
ItemDict(i) ==
    CASE call.op = "add_transactions" -> transaction_row(call.items[i], call.now)
      [] call.op = "upsert_holdings" -> holding_row("2026-01-31", call.items[i], call.now)
      [] call.op = "upsert_goals" ->
            goal_row(call.items[i],
                     created_at_for(
                         created_at_map(sheets_get_all_records(before.hdr, before.rows),
                                        1, "goal_name", <<>>),
                         call.items[i].goal_name, call.now),
                     call.now)

\* The row of item i of the last batch.
ItemRow(i) == [j \in 1..Len(UsedHeader) |-> AlignedCell(ItemDict(i), UsedHeader[j])]

\* Every row of the tab is a row it held before, in its place, or the row of
\* one of the items 1..n.
OnlyItemsWritten(n) ==
    \A r \in 1..Len(rows) :
        \/ r <= Len(before.rows) /\ rows[r] = before.rows[r]
        \/ \E i \in 1..n : rows[r] = ItemRow(i)

\* C8 as stated: the rows of items 1..k-1 are in the tab in item order (a later
\* item's row at no lower a row number), and nothing else was written.
C8_Original ==
    BatchFailed =>
        /\ call.res.status = "error"
        /\ OnlyItemsWritten(call.failAt - 1)
        /\ \E f \in [1..(call.failAt - 1) -> 1..Len(rows)] :
              /\ \A i \in 1..(call.failAt - 1) : rows[f[i]] = ItemRow(i)
              /\ \A i, j \in 1..(call.failAt - 1) : i < j => f[i] <= f[j]

\* A later item among 1..n of the batch has item i's goal_name (trimmed).
SameGoalLater(i, n) ==
    \E j \in (i + 1)..n :
        strip(call.items[j].goal_name) = strip(call.items[i].goal_name)

\* C8 (amended): when the store write for item k fails the request fails,
\* nothing is rolled back or retried and nothing of items k..n is written.
\* add_transactions and upsert_holdings leave the rows of items 1..k-1 as the
\* new last rows, in item order.  upsert_goals has upserted items 1..k-1 in turn:
\* each one's row replaced the first row holding its goal_name or was appended,
\* so the rows need not be in item order, and a later item of the same goal_name
\* overwrites an earlier one's row.
C8_PartialBatch ==
    BatchFailed =>
        /\ call.res.status = "error"
        /\ call.res.kind = "StoreUnavailable"
        /\ OnlyItemsWritten(call.failAt - 1)
        /\ call.op \in {"add_transactions", "upsert_holdings"}
              => rows = before.rows \o [i \in 1..(call.failAt - 1) |-> ItemRow(i)]
        /\ call.op = "upsert_goals"
              => /\ Len(call.written) = call.failAt - 1
                 /\ Len(rows) >= Len(before.rows)
                 /\ \A i \in 1..(call.failAt - 1) :
                       \/ \E r \in 1..Len(rows) : rows[r] = ItemRow(i)
                       \/ SameGoalLater(i, call.failAt - 1)

\* upsert_goals failed at its third item after it appended the first item's
\* row below the row it then updated for the second.
C8_Witness ==
    /\ BatchFailed
    /\ call.op = "upsert_goals"
    /\ call.failAt = 3
    /\ Len(rows) = 2
    /\ rows[2] = ItemRow(1)
    /\ rows[1] = ItemRow(2)
    /\ rows[1] # before.rows[1]

\* The request of the last update_settings supplied field f.
Supplied(f) == f \in DOMAIN call.req /\ call.req[f].t # "none"

\* C9: update_settings writes row 2 of the Settings tab and never appends, so
\* the tab, which started with at most one data row, has at most one; the row
\* written is the old row 2 with each non-null request field over it, every
\* other field as it was.
C9_SettingsSingleton ==
    tab_name = "Settings" =>
        /\ Len(rows) <= 1
        /\ (call.op = "update_settings" /\ call.res.status = "ok")
              => /\ "append_row" \notin Range(call.log)
                 /\ Len(rows) = 1
                 /\ rows[1] = call.written
                 /\ Len(before.rows) = 1
                       => \A j \in 1..Len(UsedHeader) :
                             rows[1][j] =
                                 IF Supplied(UsedHeader[j])
                                 THEN AlignedCell(call.req, UsedHeader[j])
                                 ELSE before.rows[1][j]

\* A request that set the currency over a row whose note and blank risk_mode
\* it kept.
C9_Witness ==
    /\ tab_name = "Settings"
    /\ call.op = "update_settings"
    /\ before.rows = << <<"USD", "", "mine">> >>
    /\ rows = << <<"GBP", "", "mine">> >>

\* Both callers are done, upserted the same key and found no row of it.
BothMissedSameKey ==
    /\ \A c \in Callers : callers[c].pc = "done" /\ "target_row" \in DOMAIN callers[c]
    /\ callers[1].key_value = callers[2].key_value
    /\ \A c \in Callers : callers[c].target_row = 0

\* C5: two concurrent upserts of the same absent key on the same tab can both
\* scan before either writes; then both return "inserted" and the tab ends with
\* two data rows holding the key: nothing in the upsert stands in the way.
C5_BothInsert ==
    BothMissedSameKey =>
        /\ \A c \in Callers :
              callers[c].res.status = "ok" /\ callers[c].res.ret.action = "inserted"
        /\ Len(rows) = Len(before.rows) + 2
        /\ Cardinality(Matches(rows, KeyPos(hdr, "id"), callers[1].key_value)) = 2

C5_Witness ==
    /\ BothMissedSameKey
    /\ Matches(before.rows, KeyPos(hdr, "id"), callers[1].key_value) = {}
    /\ \A c \in Callers : callers[c].res.ret.action = "inserted"
    /\ Cardinality(Matches(rows, KeyPos(hdr, "id"), callers[1].key_value)) = 2

\* C10: once _sheet_headers has read a tab's header row, every later append,
\* update and upsert on the tab aligns its row to that header, also after the
\* remote header row was changed; no step replaces or drops the cached header.
C10_FirstHeaderKept ==
    [][/\ cache # <<>> => cache' = cache
       /\ (call'.op \in {"append", "update", "upsert"} /\ call'.res.status = "ok")
             => IsAligned(call'.written, cache', call'.row_dict)]_vars

\* A row written to the cached header's columns under a remote header that has
\* other columns.
C10_Witness ==
    /\ call.op \in {"append", "update", "upsert"}
    /\ call.res.status = "ok"
    /\ cache # <<>>
    /\ hdr # <<>>
    /\ hdr # cache
    /\ before.hdr = hdr
    /\ IsAligned(call.written, cache, call.row_dict)
    /\ ~IsAligned(call.written, hdr, call.row_dict)

\* C11: add_networth returns, and writes to the net_worth column, the six
\* assets summed less the two liabilities summed, for every request; cash 10000,
\* fd 5000, ppf 2000 and cc 1000 with all else 0 give 16000; the value returned
\* is the value written.
C11_NetWorth ==
    (call.op = "add_networth" /\ call.res.status = "ok") =>
        /\ call.res.ret.net_worth =
              Num((call.req.cash_bank + call.req.fd_total + call.req.ppf_balance
                     + call.req.equity_value + call.req.mf_value
                     + call.req.other_assets)
                  - (call.req.liabilities_cc + call.req.liabilities_loans))
        /\ rows = Append(before.rows, call.written)
        /\ call.written[KeyPos(UsedHeader, "net_worth")]
              = IntText(call.res.ret.net_worth.v)
        /\ (call.req.cash_bank = 10000 /\ call.req.fd_total = 5000
            /\ call.req.ppf_balance = 2000 /\ call.req.liabilities_cc = 1000)
              => call.res.ret.net_worth = Num(16000)

\* The snapshot of the example written below one with more owed than owned.
C11_Witness ==
    /\ call.op = "add_networth"
    /\ call.res.status = "ok"
    /\ call.req.cash_bank = 10000
    /\ Len(rows) = 2
    /\ rows[1] = <<"2026-03-31", "64", "-129">>
    /\ rows[2] = <<"2026-01-31", "1000", "16000">>

\* C12: close_month computes win_rate = win_count / (win_count + loss_count)
\* * 100 when the total is not 0 and 0 when it is 0, and never fails with a
\* division by zero; 3 wins and 1 loss give 75, no wins and no losses give 0.
C12_WinRate ==
    call.op = "close_month" =>
        /\ call.res.status = "error" => call.res.kind # "ZeroDivisionError"
        /\ call.res.status = "ok" =>
              /\ call.req.win_count + call.req.loss_count = 0
                    => call.res.ret.win_rate = Num(0)
              /\ (call.req.win_count + call.req.loss_count # 0
                  /\ call.res.ret.win_rate.t = "num")
                    => call.res.ret.win_rate.v
                          * (call.req.win_count + call.req.loss_count)
                       = call.req.win_count * 100
              /\ (call.req.win_count + call.req.loss_count # 0
                  /\ call.res.ret.win_rate.t = "rat")
                    => call.res.ret.win_rate.v[1]
                          * (call.req.win_count + call.req.loss_count)
                       = call.req.win_count * 100 * call.res.ret.win_rate.v[2]
              /\ (call.req.win_count = 3 /\ call.req.loss_count = 1)
                    => call.res.ret.win_rate = Num(75)
              /\ call.written[KeyPos(UsedHeader, "win_rate")]
                    = cell_text(call.res.ret.win_rate)

\* A month of one win and a loss count of -1, the total 0, closed with rate 0
\* below a month of 3 wins and 1 loss.
C12_Witness ==
    /\ call.op = "close_month"
    /\ call.res.status = "ok"
    /\ call.req.win_count = 1
    /\ call.req.loss_count = 0 - 1
    /\ Len(rows) = 2
    /\ rows[1][1] = "75"
    /\ rows[2][1] = "0"

\* The rows (as indexes) the last upsert_goals or upsert_plan_year reported
\* "updated" for, among the rows the tab held before the call.
UpdatedOldRows ==
    IF call.op = "upsert_goals"
    THEN {call.written[i].row - 1 :
            i \in {j \in 1..Len(call.written) :
                      /\ call.written[j].action = "updated"
                      /\ call.written[j].row - 1 <= Len(before.rows)}}
    ELSE IF call.op = "upsert_plan_year" /\ call.res.status = "ok"
            /\ call.res.ret.action = "updated"
    THEN {call.res.ret.row - 1}
    ELSE {}

\* C13: whenever upsert_goals or upsert_plan_year updates a row, the created_at
\* of the row is the one it held before the call, and only an inserted row gets
\* the current time, for every goal_name / fy, surrounding whitespace included.
C13_CreatedAtKept ==
    call.op \in {"upsert_goals", "upsert_plan_year"} =>
        \A r \in UpdatedOldRows :
            rows[r][KeyPos(UsedHeader, "created_at")]
                = before.rows[r][KeyPos(UsedHeader, "created_at")]

\* C14: no upsert modifies row 1: the scan starts at row 2, so the row an
\* upsert reports and writes is row 2 or below, also when key_value is the key
\* field's own header name or is empty.
C14_HeaderRowKept ==
    call.op = "upsert" =>
        /\ hdr = before.hdr
        /\ (call.res.status = "ok" /\ call.res.ret.action = "updated")
              => /\ call.res.ret.row >= 2
                 /\ call.res.ret.row <= Len(before.rows) + 1
                 /\ rows[call.res.ret.row - 1] = call.written
                 /\ "update" \in Range(call.log)

\* An upsert of the key "id" on the field id, whose header cell is "id", over
\* two data rows: it found no row and appended.
C14_Witness ==
    /\ call.op = "upsert"
    /\ call.key_column = "id"
    /\ call.key_value = "id"
    /\ "id" \in Range(hdr)
    /\ hdr[KeyPos(hdr, "id")] = call.key_value
    /\ Len(before.rows) = 2
    /\ call.res.status = "ok"
    /\ call.res.ret.action = "inserted"
    /\ hdr = before.hdr

====
